---- MODULE Spec2Model ----
(***************************************************************************)
(* Model of common/oauthTokenManager.go: the process-wide token store      *)
(* credential (TokenStoreCredential, GetTokenStoreCredential) and the      *)
(* UserOAuthTokenManager (GetTokenInfo and the login entry points).        *)
(* Time is counted in seconds since the epoch.                             *)
(***************************************************************************)
EXTENDS Integers, Sequences, FiniteSets, TLC

\* ------------------------------------------------------------------ bounds
NumThreads == 2     \* goroutines calling into the shared credential
MaxCalls == 3       \* calls started by all goroutines together
MaxTicks == 1       \* how often the clock advances
MaxMgrCalls == 3    \* calls on the token manager started by all goroutines together
MaxLogins == 1      \* how many of them are login entry points
MaxKeyLen == 2      \* keys in a path given to ARMUnimplementedStruct.Get
MaxGetSteps == 3    \* iterations of Get's loop that are followed

\* --------------------------------------------------------- program constants
minimumTokenValidDuration == 300   \* time.Minute * 5, in seconds
ExpiresDefault == -3600            \* Expires(): s = -3600 when ExpiresOn does not parse

TokenRefreshSourceTokenStore == "tokenstore"

Threads == 1..NumThreads
NoThread == 0
NilTsc == 0

\* the clock advances in steps of five minutes
ClockStep == minimumTokenValidDuration

\* ---------------------------------------------------------------- values
\* json.Number: a string that may or may not parse as a number
Num(n) == [valid |-> TRUE, val |-> n]
NotANumber == [valid |-> FALSE, val |-> 0]

\* azcore.AccessToken{Token, ExpiresOn}
AccessToken(tok, exp) == [Token |-> tok, ExpiresOn |-> exp]
ZeroAccessToken == AccessToken("", 0)

\* what the external integration can put into the token store
StoreTokens ==
    { [AccessToken |-> "s1", ExpiresOn |-> Num(900)],
      [AccessToken |-> "s2", ExpiresOn |-> NotANumber] }

\* the (accessToken, expiresOn) pairs GetTokenStoreCredential is called with
SeedTokens == { AccessToken("seedA", 0), AccessToken("seedB", 600) }

VARIABLES
    now,                          \* time.Now()
    store,                        \* tokenStoreCredCache: <<>> or <<OAuthTokenInfo>>
    globalTokenStoreCredential,   \* pointer to the shared TokenStoreCredential, NilTsc = nil
    globalTsc,                    \* sync.Once: [done, m]
    heap,                         \* the TokenStoreCredential objects allocated so far
    pc,                           \* where each goroutine is
    issued,                       \* the credentials GetTokenStoreCredential has returned
    cred,                         \* the credential (receiver) of each goroutine's GetToken call
    arg,                          \* arguments of the call in progress
    obs,                          \* what the call in progress did so far
    ret,                          \* result of each goroutine's last completed call
    calls,                        \* calls started so far
    ticks,                        \* clock advances so far
    envVar,                       \* AZCOPY_OAUTH_TOKEN_INFO: <<>> (unset or empty) or <<payload>>
    stashedInfo,                  \* uotm.stashedInfo: <<>> (nil) or <<OAuthTokenInfo>>
    panicked,                     \* the process died in a panic
    rawToken,                     \* getTokenInfoFromEnvVar's rawToken, per goroutine
    tokenInfo,                    \* GetTokenInfo's tokenInfo, per goroutine
    atCall,                       \* the environment and the stash when the call in progress began
    mret,                         \* result of each goroutine's last call on the manager
    lastLogin,                    \* what the login entry point called last did
    resolved,                     \* the token info GetTokenInfo returned first: <<>> or <<info>>
    replaced,                     \* the stash has been assigned another value since then
    removed,                      \* RemoveCachedToken returned nil, nothing stashed since
    hct,                          \* HasCachedToken's last result since then, or "none"
    logins,                       \* login entry points called so far
    descriptor,                   \* the OAuthTokenInfo a function of it is applied to
    fnResult,                     \* what the function applied last returned
    armPc,                        \* where the PerformRequest call is
    armReq,                       \* the request settings and the request sent
    armResp,                      \* the response to the request
    lro,                          \* the long-running operation being resolved
    cancelFired,                  \* the caller's cancellation signal has fired
    armRet,                       \* what PerformRequest returned last
    getPc,                        \* where the ARMUnimplementedStruct.Get call is
    Key,                          \* Get's key path
    out,                          \* the kind of Get's target: "ptr" or "value"
    object,                       \* the raw message Get is looking at
    getSteps,                     \* iterations of Get's loop so far
    getRet                        \* what Get returned last

tscVars == <<now, store, globalTokenStoreCredential, globalTsc, heap, issued, pc, cred,
             arg, obs, ret, calls, ticks>>
mgrVars == <<envVar, stashedInfo, panicked, rawToken, tokenInfo, atCall, mret,
            lastLogin, resolved, replaced, removed, hct, logins>>
fnVars == <<descriptor, fnResult>>
getVars == <<getPc, Key, out, object, getSteps, getRet>>
armVars == <<armPc, armReq, armResp, lro, cancelFired, armRet, getVars>>
vars == <<tscVars, mgrVars, fnVars, armVars>>

\* ------------------------------------------------------- OAuthTokenInfo.Expires
ExpiresWrongDefault(info) ==
    IF info.ExpiresOn.valid THEN info.ExpiresOn.val ELSE 3600

Expires(info) ==
    IF info.ExpiresOn.valid THEN info.ExpiresOn.val ELSE ExpiresDefault

\* time.Until(tsc.token.ExpiresOn) > minimumTokenValidDuration
StillValidInverted(token, t) == token.ExpiresOn - t < minimumTokenValidDuration

StillValid(token, t) == token.ExpiresOn - t > minimumTokenValidDuration

\* what a GetToken call did: the cached token it checked and when, its calls of
\* HasCachedToken and LoadToken and how they ended, the token info it loaded, the
\* cached token it found when it got the exclusive lock
NoObs == [seen |-> ZeroAccessToken, checkedAt |-> 0,
          has |-> 0, hasOutcome |-> "none", loads |-> 0, loadOutcome |-> "none",
          loaded |-> <<>>, locked |-> ZeroAccessToken]
NoRet == [op |-> "none", err |-> FALSE, token |-> ZeroAccessToken,
          path |-> "none", at |-> 0, cred |-> NilTsc, arg |-> ZeroAccessToken,
          obs |-> NoObs, after |-> ZeroAccessToken]

TscInit ==
    /\ now = 0
    /\ store = <<>>
    /\ globalTokenStoreCredential = NilTsc
    /\ globalTsc = [done |-> FALSE, m |-> NoThread]
    /\ heap = <<>>
    /\ issued = {}
    /\ pc = [t \in Threads |-> "idle"]
    /\ cred = [t \in Threads |-> NilTsc]
    /\ arg = [t \in Threads |-> ZeroAccessToken]
    /\ obs = [t \in Threads |-> NoObs]
    /\ ret = [t \in Threads |-> NoRet]
    /\ calls = 0
    /\ ticks = 0

\* ------------------------------------------------------------ OAuthTokenInfo
NoCredential == "nil"

\* IdentityInfo{ClientID, ObjectID, MSIResID} and SPNInfo{Secret, CertPath}
IdentityInfo(c, o, r) == [ClientID |-> c, ObjectID |-> o, MSIResID |-> r]
SPNInfo(secret, certPath) == [Secret |-> secret, CertPath |-> certPath]

\* the zero OAuthTokenInfo (the zero json.Number is the empty string: no number)
ZeroTokenInfo ==
    [TokenCredential |-> NoCredential,
     AccessToken |-> "", ExpiresOn |-> NotANumber,
     Tenant |-> "", ActiveDirectoryEndpoint |-> "",
     TokenRefreshSource |-> "", ApplicationID |-> "",
     Identity |-> FALSE, IdentityInfo |-> IdentityInfo("", "", ""),
     ServicePrincipalName |-> FALSE, SPNInfo |-> SPNInfo("", ""),
     AzCLICred |-> FALSE, PSCred |-> FALSE, ClientID |-> ""]

DefaultTenantID == "common"
DefaultActiveDirectoryEndpoint == "https://login.microsoftonline.com"
ApplicationID == "579a7132-0e58-4d80-b1e1-7a1e2d337859"

\* a GetTokenInfo call's end: how it ended, the token info returned, the value it
\* read from the variable, the variable and the stash (set or nil) when it began,
\* whether its last step changed the stash, whether the returned info is stashed,
\* whether it went on to getTokenInfoFromEnvVar, whether it began after a
\* GetTokenInfo call had returned token info
NoMret == [op |-> "none", outcome |-> "none", info |-> <<>>, raw |-> <<>>,
           envAtCall |-> <<>>, stashSetAtCall |-> FALSE,
           stashChanged |-> FALSE, stashed |-> FALSE,
           readEnv |-> FALSE, afterResolved |-> FALSE]
\* a login entry point's return: the error or nil, the token requests it made and
\* whether one succeeded, whether it changed the stash, whether its own info is stashed
NoLogin == [op |-> "none", outcome |-> "none", probes |-> 0, probeOk |-> FALSE,
            identityInfo |-> IdentityInfo("", "", ""), resolutions |-> 0,
            stashChanged |-> FALSE, stashed |-> FALSE]
NoAtCall == [env |-> <<>>, stashSet |-> FALSE, resolved |-> FALSE]

\* no function of an OAuthTokenInfo has been applied
NoResult == [op |-> "none"]
FnIdle ==
    /\ descriptor = ZeroTokenInfo
    /\ fnResult = NoResult

\* no request made: the ARMClient as constructed
NoRequest == [sent |-> FALSE, Headers |-> "nil", Authorization |-> "",
              freshErr |-> FALSE, target |-> "nil"]
NoResponse == [StatusCode |-> 0, Body |-> "none", AsyncOperation |-> ""]
NoLro == [state |-> "none", uri |-> "", signal |-> "none", last |-> "none"]
NoArmRet == [op |-> "none", armResp |-> "nil", err |-> "nil", code |-> 0,
             body |-> "none", target |-> "unwritten"]
\* json.RawMessage values: nothing, a scalar, an object with its members
JNil == [kind |-> "nil"]
JScalar == [kind |-> "scalar"]
JObject(members) == [kind |-> "object", members |-> members]

GetIdle ==
    /\ getPc = "idle"
    /\ Key = <<>>
    /\ out = "ptr"
    /\ object = JNil
    /\ getSteps = 0
    /\ getRet = "none"

ArmClientIdle ==
    /\ armPc = "idle"
    /\ armReq = NoRequest
    /\ armResp = NoResponse
    /\ lro = NoLro
    /\ cancelFired = FALSE
    /\ armRet = NoArmRet

ArmIdle == ArmClientIdle /\ GetIdle

\* the manager with no call in progress and nothing stashed
\* (NewUserOAuthTokenManagerInstance)
MgrIdle ==
    /\ envVar = <<>>
    /\ stashedInfo = <<>>
    /\ panicked = FALSE
    /\ rawToken = [t \in Threads |-> <<>>]
    /\ tokenInfo = [t \in Threads |-> <<>>]
    /\ atCall = [t \in Threads |-> NoAtCall]
    /\ mret = [t \in Threads |-> NoMret]
    /\ lastLogin = NoLogin
    /\ resolved = <<>>
    /\ replaced = FALSE
    /\ removed = FALSE
    /\ hct = "none"
    /\ logins = 0

\* ------------------------------------------------------------- environment
Tick ==
    /\ ticks < MaxTicks
    /\ ticks' = ticks + 1
    /\ now' = now + ClockStep
    /\ UNCHANGED <<store, globalTokenStoreCredential, globalTsc, heap, issued, pc, cred,
                   arg, obs, ret, calls>>
    /\ UNCHANGED <<mgrVars, fnVars, armVars>>

\* the integration that owns the token store writes a token into it
StoreWrite ==
    /\ \E info \in StoreTokens :
          /\ store # <<info>>
          /\ store' = <<info>>
    /\ UNCHANGED <<now, globalTokenStoreCredential, globalTsc, heap, issued, pc, cred,
                   arg, obs, ret, calls, ticks>>
    /\ UNCHANGED <<mgrVars, fnVars, armVars>>

\* --------------------------------------------------- GetTokenStoreCredential
\* &TokenStoreCredential{token: &azcore.AccessToken{...}}; the zero RWMutex is unlocked
\* seed and installed are history: the pair the object was created with and the
\* token infos GetToken has loaded into it
NewTokenStoreCredential(token) ==
    [token |-> token, readers |-> 0, writer |-> NoThread,
     seed |-> token, installed |-> {}]

\* a call returns: its result is recorded and its locals are gone
Return(t, r) ==
    /\ ret' = [ret EXCEPT ![t] = r]
    /\ pc' = [pc EXCEPT ![t] = "idle"]
    /\ obs' = [obs EXCEPT ![t] = NoObs]
    /\ cred' = [cred EXCEPT ![t] = NilTsc]
    /\ arg' = [arg EXCEPT ![t] = ZeroAccessToken]

CallGetTokenStoreCredential(t) ==
    /\ pc[t] = "idle"
    /\ calls < MaxCalls
    /\ calls' = calls + 1
    /\ \E a \in SeedTokens : arg' = [arg EXCEPT ![t] = a]
    /\ ret' = [ret EXCEPT ![t] = NoRet]
    /\ pc' = [pc EXCEPT ![t] = "once"]
    /\ UNCHANGED <<now, store, globalTokenStoreCredential, globalTsc, heap, issued,
                   cred, obs, ticks>>
    /\ UNCHANGED <<mgrVars, fnVars, armVars>>

\* globalTsc.Do: the fast check of the done flag
OnceDo(t) ==
    /\ pc[t] = "once"
    /\ pc' = [pc EXCEPT ![t] = IF globalTsc.done THEN "gtsc_ret" ELSE "once_lock"]
    /\ UNCHANGED <<now, store, globalTokenStoreCredential, globalTsc, heap, issued,
                   cred, arg, obs, ret, calls, ticks>>
    /\ UNCHANGED <<mgrVars, fnVars, armVars>>

\* globalTsc.Do: the slow path takes the Once's mutex
OnceLock(t) ==
    /\ pc[t] = "once_lock"
    /\ globalTsc.m = NoThread
    /\ globalTsc' = [globalTsc EXCEPT !.m = t]
    /\ pc' = [pc EXCEPT ![t] = "once_slow"]
    /\ UNCHANGED <<now, store, globalTokenStoreCredential, heap, issued, cred,
                   arg, obs, ret, calls, ticks>>
    /\ UNCHANGED <<mgrVars, fnVars, armVars>>

\* a Once that runs its function again although it already ran
OnceSlowRunsAgain(t) ==
    /\ pc[t] = "once_slow"
    /\ heap' = Append(heap, NewTokenStoreCredential(arg[t]))
    /\ globalTokenStoreCredential' = Len(heap) + 1
    /\ globalTsc' = [done |-> TRUE, m |-> NoThread]
    /\ pc' = [pc EXCEPT ![t] = "gtsc_ret"]
    /\ UNCHANGED <<now, store, issued, cred, arg, obs, ret, calls, ticks>>
    /\ UNCHANGED <<mgrVars, fnVars, armVars>>

\* globalTsc.Do under the mutex: run the initializer unless it already ran
OnceSlow(t) ==
    /\ pc[t] = "once_slow"
    /\ IF ~globalTsc.done
          THEN /\ heap' = Append(heap, NewTokenStoreCredential(arg[t]))
               /\ globalTokenStoreCredential' = Len(heap) + 1
          ELSE UNCHANGED <<heap, globalTokenStoreCredential>>
    /\ globalTsc' = [done |-> TRUE, m |-> NoThread]
    /\ pc' = [pc EXCEPT ![t] = "gtsc_ret"]
    /\ UNCHANGED <<now, store, issued, cred, arg, obs, ret, calls, ticks>>
    /\ UNCHANGED <<mgrVars, fnVars, armVars>>

\* return globalTokenStoreCredential
GetTokenStoreCredentialReturn(t) ==
    /\ pc[t] = "gtsc_ret"
    /\ issued' = issued \cup {globalTokenStoreCredential}
    /\ Return(t, [NoRet EXCEPT !.op = "GetTokenStoreCredential",
                               !.cred = globalTokenStoreCredential,
                               !.arg = arg[t],
                               !.after = heap[globalTokenStoreCredential].token])
    /\ UNCHANGED <<now, store, globalTokenStoreCredential, globalTsc, heap,
                   calls, ticks>>
    /\ UNCHANGED <<mgrVars, fnVars, armVars>>

GetTokenStoreCredential(t) ==
    \/ CallGetTokenStoreCredential(t)
    \/ OnceDo(t)
    \/ OnceLock(t)
    \/ OnceSlow(t)
    \/ GetTokenStoreCredentialReturn(t)

\* ------------------------------------------------- TokenStoreCredential.GetToken
Tsc(t) == heap[cred[t]]

\* a return of GetToken: the result, the clock, what the call did, the cached token left behind
GetTokenResult(t, err, token, path, o, after) ==
    [op |-> "GetToken", err |-> err, token |-> token, path |-> path, at |-> now,
     cred |-> cred[t], arg |-> ZeroAccessToken, obs |-> o, after |-> after]

\* a goroutine calls GetToken on a credential the process holds
CallGetToken(t) ==
    /\ pc[t] = "idle"
    /\ calls < MaxCalls
    /\ calls' = calls + 1
    /\ \E h \in issued : cred' = [cred EXCEPT ![t] = h]
    /\ ret' = [ret EXCEPT ![t] = NoRet]
    /\ pc' = [pc EXCEPT ![t] = "rlock"]
    /\ UNCHANGED <<now, store, globalTokenStoreCredential, globalTsc, heap, issued,
                   arg, obs, ticks>>
    /\ UNCHANGED <<mgrVars, fnVars, armVars>>

\* tsc.lock.RLock(): waits while a writer holds or is waiting for the lock
RLock(t) ==
    /\ pc[t] = "rlock"
    /\ Tsc(t).writer = NoThread
    /\ heap' = [heap EXCEPT ![cred[t]].readers = @ + 1]
    /\ pc' = [pc EXCEPT ![t] = "check"]
    /\ UNCHANGED <<now, store, globalTokenStoreCredential, globalTsc, issued, cred,
                   arg, obs, ret, calls, ticks>>
    /\ UNCHANGED <<mgrVars, fnVars, armVars>>

\* if time.Until(tsc.token.ExpiresOn) > minimumTokenValidDuration { return *tsc.token, nil }
CheckExpiry(t) ==
    /\ pc[t] = "check"
    /\ LET o == [obs[t] EXCEPT !.seen = Tsc(t).token, !.checkedAt = now] IN
       IF StillValid(Tsc(t).token, now)
         THEN Return(t, GetTokenResult(t, FALSE, Tsc(t).token, "fast", o, Tsc(t).token))
         ELSE /\ pc' = [pc EXCEPT ![t] = "runlock"]
              /\ obs' = [obs EXCEPT ![t] = o]
              /\ UNCHANGED <<ret, cred, arg>>
    /\ UNCHANGED <<now, store, globalTokenStoreCredential, globalTsc, heap, issued,
                   calls, ticks>>
    /\ UNCHANGED <<mgrVars, fnVars, armVars>>

\* tsc.lock.RUnlock()
RUnlock(t) ==
    /\ pc[t] = "runlock"
    /\ heap' = [heap EXCEPT ![cred[t]].readers = @ - 1]
    /\ pc' = [pc EXCEPT ![t] = "lock"]
    /\ UNCHANGED <<now, store, globalTokenStoreCredential, globalTsc, issued, cred,
                   arg, obs, ret, calls, ticks>>
    /\ UNCHANGED <<mgrVars, fnVars, armVars>>

\* a lock that lets a second writer in while another holds or awaits it
LockIgnoresWriter(t) ==
    /\ pc[t] = "lock"
    /\ heap' = [heap EXCEPT ![cred[t]].writer = t]
    /\ pc' = [pc EXCEPT ![t] = "lockwait"]
    /\ UNCHANGED <<now, store, globalTokenStoreCredential, globalTsc, issued, cred,
                   arg, obs, ret, calls, ticks>>
    /\ UNCHANGED <<mgrVars, fnVars, armVars>>

\* tsc.lock.Lock(), first half: become the one pending writer (new readers now wait)
Lock(t) ==
    /\ pc[t] = "lock"
    /\ Tsc(t).writer = NoThread
    /\ heap' = [heap EXCEPT ![cred[t]].writer = t]
    /\ pc' = [pc EXCEPT ![t] = "lockwait"]
    /\ UNCHANGED <<now, store, globalTokenStoreCredential, globalTsc, issued, cred,
                   arg, obs, ret, calls, ticks>>
    /\ UNCHANGED <<mgrVars, fnVars, armVars>>

\* a lock acquisition followed by a second look at the expiry
LockAcquiredRechecks(t) ==
    /\ pc[t] = "lockwait"
    /\ Tsc(t).readers = 0
    /\ LET o == [obs[t] EXCEPT !.locked = Tsc(t).token] IN
       IF StillValid(Tsc(t).token, now)
         THEN /\ heap' = [heap EXCEPT ![cred[t]].writer = NoThread]
              /\ Return(t, GetTokenResult(t, FALSE, Tsc(t).token, "slow", o, Tsc(t).token))
         ELSE /\ obs' = [obs EXCEPT ![t] = o]
              /\ pc' = [pc EXCEPT ![t] = "has"]
              /\ UNCHANGED <<heap, cred, arg, ret>>
    /\ UNCHANGED <<now, store, globalTokenStoreCredential, globalTsc, issued,
                   calls, ticks>>
    /\ UNCHANGED <<mgrVars, fnVars, armVars>>

\* tsc.lock.Lock(), second half: wait until the readers have left
LockAcquired(t) ==
    /\ pc[t] = "lockwait"
    /\ Tsc(t).readers = 0
    /\ obs' = [obs EXCEPT ![t].locked = Tsc(t).token]
    /\ pc' = [pc EXCEPT ![t] = "has"]
    /\ UNCHANGED <<now, store, globalTokenStoreCredential, globalTsc, heap, issued,
                   cred, arg, ret, calls, ticks>>
    /\ UNCHANGED <<mgrVars, fnVars, armVars>>

\* defer tsc.lock.Unlock()
Unlock(h, t) == [h EXCEPT ![cred[t]].writer = NoThread]

\* an error path that drops the cached token before it returns
HasCachedTokenClearsToken(t) ==
    /\ pc[t] = "has"
    /\ \E err \in BOOLEAN :
         LET hasToken == store # <<>>
             o == [obs[t] EXCEPT !.has = @ + 1,
                                 !.hasOutcome = IF err THEN "error"
                                                ELSE IF hasToken THEN "found"
                                                ELSE "absent"] IN
         IF err \/ ~hasToken
           THEN /\ heap' = Unlock([heap EXCEPT ![cred[t]].token = ZeroAccessToken], t)
                /\ Return(t, GetTokenResult(t, TRUE, ZeroAccessToken, "slow", o,
                                            ZeroAccessToken))
           ELSE /\ pc' = [pc EXCEPT ![t] = "load"]
                /\ obs' = [obs EXCEPT ![t] = o]
                /\ UNCHANGED <<heap, ret, cred, arg>>
    /\ UNCHANGED <<now, store, globalTokenStoreCredential, globalTsc, issued,
                   calls, ticks>>
    /\ UNCHANGED <<mgrVars, fnVars, armVars>>

\* hasToken, err := tokenStoreCredCache.HasCachedToken(); if err != nil || !hasToken { return error }
HasCachedToken(t) ==
    /\ pc[t] = "has"
    /\ \E err \in BOOLEAN :
         LET hasToken == store # <<>>
             o == [obs[t] EXCEPT !.has = @ + 1,
                                 !.hasOutcome = IF err THEN "error"
                                                ELSE IF hasToken THEN "found"
                                                ELSE "absent"] IN
         IF err \/ ~hasToken
           THEN /\ heap' = Unlock(heap, t)
                /\ Return(t, GetTokenResult(t, TRUE, ZeroAccessToken, "slow", o,
                                            Tsc(t).token))
           ELSE /\ pc' = [pc EXCEPT ![t] = "load"]
                /\ obs' = [obs EXCEPT ![t] = o]
                /\ UNCHANGED <<heap, ret, cred, arg>>
    /\ UNCHANGED <<now, store, globalTokenStoreCredential, globalTsc, issued,
                   calls, ticks>>
    /\ UNCHANGED <<mgrVars, fnVars, armVars>>

\* a token built with the expiry of the token it replaces
LoadedTokenKeepsOldExpiry(info, old) ==
    AccessToken(info.AccessToken, old.ExpiresOn)

\* an update in place that sets the expiry and leaves the token string
LoadedTokenKeepsOldString(info, old) ==
    AccessToken(old.Token, Expires(info))

\* &azcore.AccessToken{Token: tokenInfo.AccessToken, ExpiresOn: tokenInfo.Expires()}
LoadedToken(info, old) ==
    AccessToken(info.AccessToken, Expires(info))

\* tokenInfo, err := tokenStoreCredCache.LoadToken(); error, or replace tsc.token and return it
LoadToken(t) ==
    /\ pc[t] = "load"
    /\ \E err \in BOOLEAN :
         LET o == [obs[t] EXCEPT !.loads = @ + 1,
                                 !.loadOutcome = IF err THEN "error" ELSE "loaded",
                                 !.loaded = IF err THEN <<>> ELSE store]
             new == LoadedToken(store[1], Tsc(t).token) IN
         IF err
           THEN /\ heap' = Unlock(heap, t)
                /\ Return(t, GetTokenResult(t, TRUE, ZeroAccessToken, "slow", o,
                                            Tsc(t).token))
           ELSE /\ heap' = Unlock([heap EXCEPT ![cred[t]].token = new,
                                                ![cred[t]].installed = @ \cup {store[1]}], t)
                /\ Return(t, GetTokenResult(t, FALSE, new, "slow", o, new))
    /\ UNCHANGED <<now, store, globalTokenStoreCredential, globalTsc, issued,
                   calls, ticks>>
    /\ UNCHANGED <<mgrVars, fnVars, armVars>>

GetToken(t) ==
    \/ CallGetToken(t)
    \/ RLock(t)
    \/ CheckExpiry(t)
    \/ RUnlock(t)
    \/ Lock(t)
    \/ LockAcquired(t)
    \/ HasCachedToken(t)
    \/ LoadToken(t)

TscNext ==
    \/ Tick
    \/ StoreWrite
    \/ \E t \in Threads : GetTokenStoreCredential(t)
    \/ \E t \in Threads : GetToken(t)

\* the credential on its own: the manager stays as constructed
Init == TscInit /\ MgrIdle /\ FnIdle /\ ArmIdle

Spec == Init /\ [][TscNext]_vars

\* a goroutine that is inside a call and can take its next step
Step(t) ==
    \/ OnceDo(t)
    \/ OnceLock(t)
    \/ OnceSlow(t)
    \/ GetTokenStoreCredentialReturn(t)
    \/ RLock(t)
    \/ CheckExpiry(t)
    \/ RUnlock(t)
    \/ Lock(t)
    \/ LockAcquired(t)
    \/ HasCachedToken(t)
    \/ LoadToken(t)

\* the Go scheduler runs every goroutine that is able to run
FairSpec == Spec /\ \A t \in Threads : WF_tscVars(Step(t))

\* ======================================================================
\* UserOAuthTokenManager
\* ======================================================================

\* --------------------------------------------------------- the environment
\* lcm.GetEnvironmentVariable(EEnvironmentVariable.OAuthTokenInfo())
GetEnvironmentVariable(env) == env

\* lcm.ClearEnvironmentVariable(EEnvironmentVariable.OAuthTokenInfo())
ClearEnvironmentVariable(env) == <<>>

\* a JSON object with every key of OAuthTokenInfo's encoding
JsonObject(accessToken, expiresOn, refreshSource) ==
    [access_token |-> accessToken, expires_on |-> expiresOn,
     _tenant |-> "", _ad_endpoint |-> "",
     _token_refresh_source |-> refreshSource, _application_id |-> "",
     _identity |-> FALSE,
     IdentityInfo |-> [_identity_client_id |-> "", _identity_object_id |-> "",
                       _identity_msi_res_id |-> ""],
     _spn |-> FALSE,
     SPNInfo |-> [_spn_secret |-> "", _spn_cert_path |-> ""],
     AzCLICred |-> FALSE, PSCred |-> FALSE, _client_id |-> ""]

\* the values the variable can hold when the process starts: text that is no
\* JSON, or a JSON object
NotJson == [wellFormed |-> FALSE, object |-> JsonObject("", Num(0), "")]
Json(o) == [wellFormed |-> TRUE, object |-> o]

EnvPayloads ==
    { NotJson,
      Json(JsonObject("envToken", Num(900), TokenRefreshSourceTokenStore)),
      Json(JsonObject("", Num(900), TokenRefreshSourceTokenStore)),
      Json(JsonObject("envToken", Num(900), "")) }

\* json.Unmarshal(b, &OAuthTokenInfo): the fields by their json tags
Unmarshal(o) ==
    [TokenCredential |-> NoCredential,
     AccessToken |-> o.access_token, ExpiresOn |-> o.expires_on,
     Tenant |-> o._tenant, ActiveDirectoryEndpoint |-> o._ad_endpoint,
     TokenRefreshSource |-> o._token_refresh_source,
     ApplicationID |-> o._application_id,
     Identity |-> o._identity,
     IdentityInfo |-> IdentityInfo(o.IdentityInfo._identity_client_id,
                                   o.IdentityInfo._identity_object_id,
                                   o.IdentityInfo._identity_msi_res_id),
     ServicePrincipalName |-> o._spn,
     SPNInfo |-> SPNInfo(o.SPNInfo._spn_secret, o.SPNInfo._spn_cert_path),
     AzCLICred |-> o.AzCLICred, PSCred |-> o.PSCred, ClientID |-> o._client_id]

\* jsonToTokenInfo: the parsed info; a token-store info gets the shared credential
jsonToTokenInfo(b) ==
    IF ~b.wellFormed
      THEN [err |-> TRUE, info |-> ZeroTokenInfo]
      ELSE LET info == Unmarshal(b.object) IN
           [err |-> FALSE,
            info |-> IF info.TokenRefreshSource = TokenRefreshSourceTokenStore
                       THEN [info EXCEPT !.TokenCredential = "tokenstore"]
                       ELSE info]

\* ------------------------------------------------------- IdentityInfo.Validate
\* v is a map keyed by the non-empty values; the info is valid unless len(v) > 1
Validate(identityInfo) ==
    LET v == { x \in {identityInfo.ClientID, identityInfo.ObjectID,
                      identityInfo.MSIResID} : x # "" }
    IN  Cardinality(v) <= 1

\* -------------------------------------------- OAuthTokenInfo.GetTokenCredential
\* a resolution that looks at the CLI flag before managed identity
ResolutionPathCliFirst(credInfo) ==
    IF credInfo.TokenCredential # NoCredential THEN "cached"
    ELSE IF credInfo.TokenRefreshSource = TokenRefreshSourceTokenStore THEN "tokenstore"
    ELSE IF credInfo.AzCLICred THEN "azcli"
    ELSE IF credInfo.Identity THEN "managedidentity"
    ELSE IF credInfo.ServicePrincipalName
      THEN (IF credInfo.SPNInfo.CertPath # "" THEN "clientcertificate"
                                              ELSE "clientsecret")
    ELSE IF credInfo.PSCred THEN "pscontext"
    ELSE "devicecode"

\* the branch GetTokenCredential takes
ResolutionPath(credInfo) ==
    IF credInfo.TokenCredential # NoCredential THEN "cached"
    ELSE IF credInfo.TokenRefreshSource = TokenRefreshSourceTokenStore THEN "tokenstore"
    ELSE IF credInfo.Identity THEN "managedidentity"
    ELSE IF credInfo.ServicePrincipalName
      THEN (IF credInfo.SPNInfo.CertPath # "" THEN "clientcertificate"
                                              ELSE "clientsecret")
    ELSE IF credInfo.AzCLICred THEN "azcli"
    ELSE IF credInfo.PSCred THEN "pscontext"
    ELSE "devicecode"

\* a resolution that hands the object ID on to the identity library
ObjectIDForwarded(credInfo) == FALSE

\* GetManagedIdentityCredential fails for an object ID without client or resource ID
ObjectIDOnly(credInfo) ==
    /\ credInfo.IdentityInfo.ClientID = ""
    /\ credInfo.IdentityInfo.MSIResID = ""
    /\ credInfo.IdentityInfo.ObjectID # ""

\* GetTokenCredential: (tc, err) and credInfo with the credential cached on it;
\* extOk is whether the identity library (reading the certificate included)
\* builds the credential
GetTokenCredential(credInfo, extOk) ==
    LET path == ResolutionPath(credInfo) IN
    IF path = "cached" \/ path = "devicecode"
      THEN [err |-> FALSE, tc |-> credInfo.TokenCredential, info |-> credInfo]
    ELSE IF path = "tokenstore"
      THEN [err |-> FALSE, tc |-> path,
            info |-> [credInfo EXCEPT !.TokenCredential = path]]
    ELSE IF (path = "managedidentity" /\ ObjectIDOnly(credInfo)) \/ ~extOk
      THEN [err |-> TRUE, tc |-> NoCredential, info |-> credInfo]
    ELSE [err |-> FALSE, tc |-> path,
          info |-> [credInfo EXCEPT !.TokenCredential = path]]

\* Use default tenant ID and active directory endpoint, if nothing specified
WithDefaults(credInfo) ==
    [credInfo EXCEPT
       !.Tenant = IF @ = "" THEN DefaultTenantID ELSE @,
       !.ActiveDirectoryEndpoint = IF @ = "" THEN DefaultActiveDirectoryEndpoint ELSE @]

\* filepath.Abs(certPath): the working directory for the empty path
Abs(certPath) == IF certPath = "" THEN "/work" ELSE "/work/cert.pem"

\* --------------------------------------------------------------- inputs
Tenants == {"", "contoso"}
IdentityInfos ==
    { IdentityInfo("client", "", ""), IdentityInfo("", "object", ""),
      IdentityInfo("client", "", "resource"), IdentityInfo("same", "same", "") }
CertPaths == {"", "cert.pem"}

\* ------------------------------------------------------ login entry points
LoginOps == {"UserLogin", "AzCliLogin", "PSContextToken", "MSILogin",
             "SecretLogin", "CertLogin"}

\* a goroutine that is in no other call may call a method of the manager
CanCall ==
    /\ ~panicked
    /\ \E t \in Threads : pc[t] = "idle"
    /\ calls < MaxMgrCalls

CanLogin == CanCall /\ logins < MaxLogins

\* the login entry point returns
LoginReturn(op, outcome, info, resolutions, probes, probeOk, stash) ==
    /\ stashedInfo' = stash
    /\ lastLogin' = [op |-> op, outcome |-> outcome, probes |-> probes,
                     probeOk |-> probeOk,
                     identityInfo |-> info.IdentityInfo,
                     resolutions |-> resolutions,
                     stashChanged |-> (stash # stashedInfo),
                     stashed |-> (stash = <<info>>)]
    /\ calls' = calls + 1
    /\ logins' = logins + 1
    /\ replaced' = (replaced \/ (resolved # <<>> /\ stash # stashedInfo))
    /\ removed' = (removed /\ stash = stashedInfo)
    /\ UNCHANGED <<now, store, globalTokenStoreCredential, globalTsc, heap, issued,
                   pc, cred, arg, obs, ret, ticks>>
    /\ UNCHANGED <<envVar, panicked, rawToken, tokenInfo, atCall, mret, resolved, hct>>
    /\ UNCHANGED <<fnVars, armVars>>

\* validateAndPersistLogin: defaults, resolve the credential, one token request, stash
validateAndPersistLogin(op, oAuthTokenInfo) ==
    \E extOk, probeOk \in BOOLEAN :
      LET r == GetTokenCredential(WithDefaults(oAuthTokenInfo), extOk) IN
      IF r.err
        THEN LoginReturn(op, "error", r.info, 1, 0, FALSE, stashedInfo)
      ELSE IF ~probeOk
        THEN LoginReturn(op, "error", r.info, 1, 1, FALSE, stashedInfo)
      ELSE LoginReturn(op, "ok", r.info, 1, 1, TRUE, <<r.info>>)

AzCliLogin ==
    /\ CanLogin
    /\ \E tenantID \in Tenants :
          validateAndPersistLogin("AzCliLogin",
              [ZeroTokenInfo EXCEPT !.AzCLICred = TRUE, !.Tenant = tenantID])

PSContextToken ==
    /\ CanLogin
    /\ \E tenantID \in Tenants :
          validateAndPersistLogin("PSContextToken",
              [ZeroTokenInfo EXCEPT !.PSCred = TRUE, !.Tenant = tenantID])

MSILogin ==
    /\ CanLogin
    /\ \E identityInfo \in IdentityInfos :
          LET oAuthTokenInfo == [ZeroTokenInfo EXCEPT !.Identity = TRUE,
                                                      !.IdentityInfo = identityInfo] IN
          IF ~Validate(identityInfo)
            THEN LoginReturn("MSILogin", "error", oAuthTokenInfo, 0, 0, FALSE, stashedInfo)
            ELSE validateAndPersistLogin("MSILogin", oAuthTokenInfo)

SecretLogin ==
    /\ CanLogin
    /\ \E tenantID \in Tenants :
          validateAndPersistLogin("SecretLogin",
              [ZeroTokenInfo EXCEPT !.ServicePrincipalName = TRUE,
                                    !.Tenant = tenantID,
                                    !.ApplicationID = "app",
                                    !.SPNInfo = SPNInfo("secret", "")])

CertLogin ==
    /\ CanLogin
    /\ \E tenantID \in Tenants, certPath \in CertPaths :
          validateAndPersistLogin("CertLogin",
              WithDefaults([ZeroTokenInfo EXCEPT
                                    !.ServicePrincipalName = TRUE,
                                    !.Tenant = tenantID,
                                    !.ApplicationID = "app",
                                    !.SPNInfo = SPNInfo("pass", Abs(certPath))]))

\* UserLogin: build the device code credential and stash the info
UserLogin ==
    /\ CanLogin
    /\ \E tenantID \in Tenants, dcOk \in BOOLEAN :
          LET oAuthTokenInfo ==
                  WithDefaults([ZeroTokenInfo EXCEPT
                                    !.TokenCredential = "devicecode",
                                    !.Tenant = tenantID,
                                    !.ApplicationID = ApplicationID]) IN
          IF ~dcOk
            THEN LoginReturn("UserLogin", "error", oAuthTokenInfo, 0, 0, FALSE, stashedInfo)
            ELSE LoginReturn("UserLogin", "ok", oAuthTokenInfo, 0, 0, FALSE,
                             <<oAuthTokenInfo>>)

Login ==
    \/ UserLogin
    \/ AzCliLogin
    \/ PSContextToken
    \/ MSILogin
    \/ SecretLogin
    \/ CertLogin

\* ------------------------------------------------------------- GetTokenInfo
\* getCachedTokenInfo: return nil, nil
getCachedTokenInfo == [info |-> <<>>, err |-> FALSE]

\* an environment variable that is left in place after it was fetched
EnvKeptAfterFetch(env) == env

\* the variable after getTokenInfoFromEnvVar fetched a non-empty value
EnvAfterFetch(env) == ClearEnvironmentVariable(env)

\* a source check that lets every refresh source pass
AnyRefreshSource(info) == TRUE

\* tokenInfo.TokenRefreshSource != TokenRefreshSourceTokenStore is a panic
ValidRefreshSource(info) == info.TokenRefreshSource = TokenRefreshSourceTokenStore

\* a check that lets every token info pass
NeverInvalid(info) == FALSE

\* tokenInfo == nil || tokenInfo.AccessToken == "" is the invalid-state error
InvalidTokenInfo(info) == info = <<>> \/ info[1].AccessToken = ""

\* GetTokenStoreCredential seen from one caller: globalTsc.Do as a whole
OnceDoInitializer(token) ==
    IF globalTsc.done
      THEN UNCHANGED <<heap, globalTokenStoreCredential, globalTsc>>
      ELSE /\ heap' = Append(heap, NewTokenStoreCredential(token))
           /\ globalTokenStoreCredential' = Len(heap) + 1
           /\ globalTsc' = [done |-> TRUE, m |-> NoThread]

\* GetTokenInfo ends: with token info, with an error, or in a panic
GetTokenInfoEnd(t, outcome, info, raw, stash) ==
    /\ stashedInfo' = stash
    /\ mret' = [mret EXCEPT ![t] =
                  [NoMret EXCEPT !.op = "GetTokenInfo", !.outcome = outcome,
                                 !.info = info, !.raw = raw,
                                 !.envAtCall = atCall[t].env,
                                 !.stashSetAtCall = atCall[t].stashSet,
                                 !.stashChanged = (stash # stashedInfo),
                                 !.stashed = (info # <<>> /\ stash = info),
                                 !.readEnv = (pc[t] # "gti"),
                                 !.afterResolved = atCall[t].resolved]]
    /\ resolved' = IF resolved = <<>> /\ outcome = "ok" THEN info ELSE resolved
    /\ replaced' = (replaced \/ (resolved # <<>> /\ stash # stashedInfo))
    /\ removed' = (removed /\ stash = stashedInfo)
    /\ UNCHANGED hct
    /\ pc' = [pc EXCEPT ![t] = IF outcome = "panic" THEN "panicked" ELSE "idle"]
    /\ panicked' = (outcome = "panic")
    /\ rawToken' = [rawToken EXCEPT ![t] = <<>>]
    /\ tokenInfo' = [tokenInfo EXCEPT ![t] = <<>>]
    /\ atCall' = [atCall EXCEPT ![t] = NoAtCall]

\* the call runs on the first goroutine that is free
CallGetTokenInfo(t) ==
    /\ ~panicked
    /\ pc[t] = "idle"
    /\ \A u \in Threads : u < t => pc[u] # "idle"
    /\ calls < MaxMgrCalls
    /\ calls' = calls + 1
    /\ pc' = [pc EXCEPT ![t] = "gti"]
    /\ atCall' = [atCall EXCEPT ![t] = [env |-> envVar,
                                         stashSet |-> (stashedInfo # <<>>),
                                         resolved |-> (resolved # <<>>)]]
    /\ mret' = [mret EXCEPT ![t] = NoMret]
    /\ UNCHANGED <<now, store, globalTokenStoreCredential, globalTsc, heap, issued,
                   cred, arg, obs, ret, ticks,
                   envVar, stashedInfo, panicked, rawToken, tokenInfo,
                   lastLogin, logins, resolved, replaced, removed, hct>>
    /\ UNCHANGED <<fnVars, armVars>>

\* a GetTokenInfo that goes to the variable whatever is stashed
StashedInfoCheckSkipsStash(t) ==
    /\ ~panicked
    /\ pc[t] = "gti"
    /\ pc' = [pc EXCEPT ![t] = "gti_env"]
    /\ UNCHANGED <<stashedInfo, mret, panicked, rawToken, tokenInfo, atCall,
                   resolved, replaced, removed, hct>>
    /\ UNCHANGED <<now, store, globalTokenStoreCredential, globalTsc, heap, issued,
                   cred, arg, obs, ret, calls, ticks, envVar, lastLogin, logins>>
    /\ UNCHANGED <<fnVars, armVars>>

\* if uotm.stashedInfo != nil { return uotm.stashedInfo, nil }
StashedInfoCheck(t) ==
    /\ ~panicked
    /\ pc[t] = "gti"
    /\ IF stashedInfo # <<>>
         THEN GetTokenInfoEnd(t, "ok", stashedInfo, <<>>, stashedInfo)
         ELSE /\ pc' = [pc EXCEPT ![t] = "gti_env"]
              /\ UNCHANGED <<stashedInfo, mret, panicked, rawToken, tokenInfo, atCall,
                             resolved, replaced, removed, hct>>
    /\ UNCHANGED <<now, store, globalTokenStoreCredential, globalTsc, heap, issued,
                   cred, arg, obs, ret, calls, ticks, envVar, lastLogin, logins>>
    /\ UNCHANGED <<fnVars, armVars>>

\* getTokenInfoFromEnvVar reads the variable; when it is not set GetTokenInfo falls
\* back to getCachedTokenInfo and fails on the nil token info
ReadEnvVar(t) ==
    /\ ~panicked
    /\ pc[t] = "gti_env"
    /\ LET raw == GetEnvironmentVariable(envVar) IN
       IF raw = <<>>
         THEN IF getCachedTokenInfo.err \/ InvalidTokenInfo(getCachedTokenInfo.info)
                THEN GetTokenInfoEnd(t, "error", <<>>, <<>>, stashedInfo)
                ELSE GetTokenInfoEnd(t, "ok", getCachedTokenInfo.info, <<>>,
                                     getCachedTokenInfo.info)
         ELSE /\ rawToken' = [rawToken EXCEPT ![t] = raw]
              /\ pc' = [pc EXCEPT ![t] = "gti_parse"]
              /\ UNCHANGED <<stashedInfo, mret, panicked, tokenInfo, atCall,
                             resolved, replaced, removed, hct>>
    /\ UNCHANGED <<now, store, globalTokenStoreCredential, globalTsc, heap, issued,
                   cred, arg, obs, ret, calls, ticks, envVar, lastLogin, logins>>
    /\ UNCHANGED <<fnVars, armVars>>

\* getTokenInfoFromEnvVar clears the variable, parses the value and checks the
\* refresh source; GetTokenInfo then checks the access token
ParseEnvVar(t) ==
    /\ ~panicked
    /\ pc[t] = "gti_parse"
    /\ envVar' = EnvAfterFetch(envVar)
    /\ LET r == jsonToTokenInfo(rawToken[t][1]) IN
       IF r.err
         THEN /\ GetTokenInfoEnd(t, "error", <<>>, rawToken[t], stashedInfo)
              /\ UNCHANGED <<heap, globalTokenStoreCredential, globalTsc>>
       ELSE IF ~ValidRefreshSource(r.info)
         THEN /\ GetTokenInfoEnd(t, "panic", <<>>, rawToken[t], stashedInfo)
              /\ UNCHANGED <<heap, globalTokenStoreCredential, globalTsc>>
       ELSE /\ IF r.info.TokenRefreshSource = TokenRefreshSourceTokenStore
                 THEN OnceDoInitializer(AccessToken(r.info.AccessToken, Expires(r.info)))
                 ELSE UNCHANGED <<heap, globalTokenStoreCredential, globalTsc>>
            /\ IF InvalidTokenInfo(<<r.info>>)
                 THEN GetTokenInfoEnd(t, "error", <<>>, rawToken[t], stashedInfo)
                 ELSE /\ tokenInfo' = [tokenInfo EXCEPT ![t] = <<r.info>>]
                      /\ pc' = [pc EXCEPT ![t] = "gti_stash"]
                      /\ UNCHANGED <<stashedInfo, mret, panicked, rawToken, atCall,
                                     resolved, replaced, removed, hct>>
    /\ UNCHANGED <<now, store, issued, cred, arg, obs, ret, calls, ticks,
                   lastLogin, logins>>
    /\ UNCHANGED <<fnVars, armVars>>

\* uotm.stashedInfo = tokenInfo; return tokenInfo, nil
StashTokenInfo(t) ==
    /\ ~panicked
    /\ pc[t] = "gti_stash"
    /\ GetTokenInfoEnd(t, "ok", tokenInfo[t], rawToken[t], tokenInfo[t])
    /\ UNCHANGED <<now, store, globalTokenStoreCredential, globalTsc, heap, issued,
                   cred, arg, obs, ret, calls, ticks, envVar, lastLogin, logins>>
    /\ UNCHANGED <<fnVars, armVars>>

GetTokenInfo(t) ==
    \/ CallGetTokenInfo(t)
    \/ StashedInfoCheck(t)
    \/ ReadEnvVar(t)
    \/ ParseEnvVar(t)
    \/ StashTokenInfo(t)

\* ------------------------------------- HasCachedToken and RemoveCachedToken
\* uotm.HasCachedToken(): true when something is stashed, else false; no error
UotmHasCachedToken ==
    /\ CanCall
    /\ calls' = calls + 1
    /\ hct' = IF stashedInfo # <<>> THEN "true" ELSE "false"
    /\ UNCHANGED <<now, store, globalTokenStoreCredential, globalTsc, heap, issued,
                   pc, cred, arg, obs, ret, ticks>>
    /\ UNCHANGED <<envVar, stashedInfo, panicked, rawToken, tokenInfo, atCall, mret,
                   lastLogin, logins, resolved, replaced, removed>>
    /\ UNCHANGED <<fnVars, armVars>>

\* uotm.stashedInfo after RemoveCachedToken: the method body is return nil
StashAfterRemove(stash) == stash

\* uotm.RemoveCachedToken() returns nil
RemoveCachedToken ==
    /\ CanCall
    /\ calls' = calls + 1
    /\ stashedInfo' = StashAfterRemove(stashedInfo)
    /\ removed' = TRUE
    /\ hct' = "none"
    /\ UNCHANGED <<now, store, globalTokenStoreCredential, globalTsc, heap, issued,
                   pc, cred, arg, obs, ret, ticks>>
    /\ UNCHANGED <<envVar, panicked, rawToken, tokenInfo, atCall, mret,
                   lastLogin, logins, resolved, replaced>>
    /\ UNCHANGED <<fnVars, armVars>>

\* the process starts with the variable unset or holding a payload
MgrInit ==
    /\ TscInit
    /\ FnIdle
    /\ ArmIdle
    /\ envVar \in {<<>>} \cup { <<p>> : p \in EnvPayloads }
    /\ stashedInfo = <<>>
    /\ panicked = FALSE
    /\ rawToken = [t \in Threads |-> <<>>]
    /\ tokenInfo = [t \in Threads |-> <<>>]
    /\ atCall = [t \in Threads |-> NoAtCall]
    /\ mret = [t \in Threads |-> NoMret]
    /\ lastLogin = NoLogin
    /\ resolved = <<>>
    /\ replaced = FALSE
    /\ removed = FALSE
    /\ hct = "none"
    /\ logins = 0

MgrNext ==
    \/ Login
    \/ \E t \in Threads : GetTokenInfo(t)
    \/ UotmHasCachedToken
    \/ RemoveCachedToken

MgrSpec == MgrInit /\ [][MgrNext]_vars

\* ======================================================================
\* Functions of an OAuthTokenInfo: Validate, GetTokenCredential, toJSON
\* ======================================================================
\* a json.Number holding text that is no number literal; NotANumber is the
\* empty json.Number
MalformedNumber == [valid |-> FALSE, val |-> 1]

\* json.Marshal(credInfo): TokenCredential is left out (json:"-"); an empty
\* json.Number is written as 0 and text that is no number literal is an error
toJSON(credInfo) ==
    IF credInfo.ExpiresOn = MalformedNumber
      THEN [err |-> TRUE, bytes |-> NotJson]
      ELSE [err |-> FALSE,
            bytes |-> Json(
              [access_token |-> credInfo.AccessToken,
               expires_on |-> IF credInfo.ExpiresOn.valid THEN credInfo.ExpiresOn
                                                          ELSE Num(0),
               _tenant |-> credInfo.Tenant,
               _ad_endpoint |-> credInfo.ActiveDirectoryEndpoint,
               _token_refresh_source |-> credInfo.TokenRefreshSource,
               _application_id |-> credInfo.ApplicationID,
               _identity |-> credInfo.Identity,
               IdentityInfo |->
                  [_identity_client_id |-> credInfo.IdentityInfo.ClientID,
                   _identity_object_id |-> credInfo.IdentityInfo.ObjectID,
                   _identity_msi_res_id |-> credInfo.IdentityInfo.MSIResID],
               _spn |-> credInfo.ServicePrincipalName,
               SPNInfo |-> [_spn_secret |-> credInfo.SPNInfo.Secret,
                            _spn_cert_path |-> credInfo.SPNInfo.CertPath],
               AzCLICred |-> credInfo.AzCLICred, PSCred |-> credInfo.PSCred,
               _client_id |-> credInfo.ClientID])]

\* --------------------------------------------------------------- inputs
IdentityStrings == {"", "a", "b"}
Descriptors ==
    { [ZeroTokenInfo EXCEPT
          !.TokenCredential = tc, !.AccessToken = "tok", !.ExpiresOn = exp,
          !.TokenRefreshSource = src, !.Identity = id,
          !.IdentityInfo = IdentityInfo(c, o, r),
          !.ServicePrincipalName = spn, !.SPNInfo = spnInfo,
          !.AzCLICred = cli, !.PSCred = ps] :
        tc \in {NoCredential, "devicecode"},
        exp \in {NotANumber, Num(900), MalformedNumber},
        src \in {"", TokenRefreshSourceTokenStore},
        id \in BOOLEAN, c \in IdentityStrings, o \in IdentityStrings,
        r \in IdentityStrings,
        spn \in BOOLEAN, spnInfo \in {SPNInfo("secret", ""), SPNInfo("pass", "cert.pem")},
        cli \in BOOLEAN, ps \in BOOLEAN }

\* --------------------------------------------------------------- calls
FnFrame ==
    UNCHANGED <<now, store, issued, pc, cred, arg, obs, ret, calls, ticks, mgrVars,
                armVars>>

\* identityInfo.Validate()
ApplyValidate ==
    /\ fnResult' = [op |-> "Validate", ok |-> Validate(descriptor.IdentityInfo)]
    /\ UNCHANGED <<descriptor, heap, globalTokenStoreCredential, globalTsc>>
    /\ FnFrame

\* credInfo.GetTokenCredential(): the credential is cached on the descriptor
ApplyGetTokenCredential ==
    /\ \E extOk \in BOOLEAN :
          LET r == GetTokenCredential(descriptor, extOk) IN
          /\ fnResult' = [op |-> "GetTokenCredential",
                          path |-> ResolutionPath(descriptor),
                          cached |-> (descriptor.TokenCredential # NoCredential),
                          err |-> r.err, tc |-> r.tc]
          /\ descriptor' = r.info
    /\ IF ResolutionPath(descriptor) = "tokenstore"
         THEN OnceDoInitializer(AccessToken(descriptor.AccessToken, Expires(descriptor)))
         ELSE UNCHANGED <<heap, globalTokenStoreCredential, globalTsc>>
    /\ FnFrame

\* credInfo.toJSON() and, when it succeeds, jsonToTokenInfo on the bytes
ApplyRoundTrip ==
    /\ LET j == toJSON(descriptor) IN
       IF j.err
         THEN /\ fnResult' = [op |-> "RoundTrip", err |-> TRUE, info |-> <<>>]
              /\ UNCHANGED <<heap, globalTokenStoreCredential, globalTsc>>
         ELSE LET r == jsonToTokenInfo(j.bytes) IN
              /\ fnResult' = [op |-> "RoundTrip", err |-> r.err, info |-> <<r.info>>]
              /\ IF ~r.err /\ r.info.TokenRefreshSource = TokenRefreshSourceTokenStore
                   THEN OnceDoInitializer(AccessToken(r.info.AccessToken,
                                                      Expires(r.info)))
                   ELSE UNCHANGED <<heap, globalTokenStoreCredential, globalTsc>>
    /\ UNCHANGED descriptor
    /\ FnFrame

FnInit ==
    /\ TscInit
    /\ MgrIdle
    /\ ArmIdle
    /\ descriptor \in Descriptors
    /\ fnResult = NoResult

FnNext ==
    \/ ApplyValidate
    \/ ApplyGetTokenCredential
    \/ ApplyRoundTrip

FnSpec == FnInit /\ [][FnNext]_vars

\* ======================================================================
\* ARMClient.PerformRequest and the async operation it resolves
\* ======================================================================
\* --------------------------------------------------------------- inputs
HeaderMaps == {"nil", "map"}                  \* reqSettings.Headers
FreshTokens == {[token |-> "tok", err |-> FALSE], [token |-> "", err |-> TRUE]}
StatusCodes == {200, 201, 202, 204, 404, 500}
Bodies == {"json", "garbage", "unreadable"}   \* resp.Body
AsyncOperations == {"", "poll"}               \* the Azure-Asyncoperation header
PollOutcomes == {"transport", "InProgress", "Succeeded", "Failed", "Canceled"}

\* switch resp.StatusCode, with 202 taken for a failure
Dispatch202AsFailure(StatusCode) ==
    IF StatusCode \in {200, 201} THEN "immediate" ELSE "failure"
\* switch resp.StatusCode, with 202 taken for an immediate response
Dispatch202AsImmediate(StatusCode) ==
    IF StatusCode \in {200, 201, 202} THEN "immediate" ELSE "failure"
\* switch resp.StatusCode, with 201 taken for a failure
Dispatch201AsFailure(StatusCode) ==
    IF StatusCode = 200 THEN "immediate"
    ELSE IF StatusCode = 202 THEN "lro" ELSE "failure"

\* switch resp.StatusCode: case 200, 201; case 202; default
Dispatch(StatusCode) ==
    IF StatusCode \in {200, 201} THEN "immediate"
    ELSE IF StatusCode = 202 THEN "lro" ELSE "failure"

\* ResolveAzureAsyncOperation(c.OAuth, newTarget, target): the arguments carry
\* no cancellation signal
SignalPassed == "none"

\* a status that ends the polling
Terminal(status) == status \in {"Succeeded", "Failed", "Canceled"}

\* PerformRequest returns
ArmReturn(armResponse, err, code, body, target) ==
    /\ armRet' = [op |-> "PerformRequest", armResp |-> armResponse, err |-> err,
                  code |-> code, body |-> body, target |-> target]
    /\ armPc' = "idle"

ArmFrame == UNCHANGED <<tscVars, mgrVars, fnVars, getVars>>

\* CreateRequest, FreshToken and the three header assignments; a nil header map
\* panics on the first assignment
CallPerformRequest ==
    /\ armPc = "idle"
    /\ armResp' = NoResponse
    /\ lro' = NoLro
    /\ cancelFired' = FALSE
    /\ \E createOk \in BOOLEAN, headers \in HeaderMaps, fresh \in FreshTokens :
          IF ~createOk
            THEN /\ ArmReturn("nil", "failed to prepare request", 0, "none", "unwritten")
                 /\ armReq' = [NoRequest EXCEPT !.Headers = headers, !.target = "ptr"]
          ELSE IF headers = "nil"
            THEN /\ armPc' = "panicked"
                 /\ armRet' = NoArmRet
                 /\ armReq' = [NoRequest EXCEPT !.target = "ptr"]
          ELSE /\ armPc' = "sent"
               /\ armRet' = NoArmRet
               /\ armReq' = [sent |-> TRUE, Headers |-> headers,
                             Authorization |-> fresh.token, freshErr |-> fresh.err,
                             target |-> "ptr"]
    /\ ArmFrame

\* client.Do(r) and the switch on the status code
ClientDo ==
    /\ armPc = "sent"
    /\ \E doOk \in BOOLEAN, StatusCode \in StatusCodes, Body \in Bodies,
          AsyncOperation \in AsyncOperations :
          IF ~doOk
            THEN /\ ArmReturn("nil", "failed to send request", 0, "none", "unwritten")
                 /\ UNCHANGED <<armResp, lro>>
          ELSE /\ armResp' = [StatusCode |-> StatusCode, Body |-> Body,
                              AsyncOperation |-> AsyncOperation]
               /\ IF Dispatch(StatusCode) = "immediate"
                    THEN /\ IF Body = "unreadable"
                              THEN ArmReturn("nil", "failed to read response body",
                                             200, "none", "unwritten")
                            ELSE IF Body = "garbage"
                              THEN ArmReturn("nil", "failed to parse response body",
                                             0, "none", "unwritten")
                            ELSE ArmReturn("nil", "nil", 0, "none", Body)
                         /\ UNCHANGED lro
                  ELSE IF Dispatch(StatusCode) = "lro"
                    THEN /\ lro' = [state |-> "Accepted", uri |-> AsyncOperation,
                                    signal |-> SignalPassed, last |-> "none"]
                         /\ armPc' = "polling"
                         /\ UNCHANGED armRet
                  ELSE /\ IF Body = "unreadable"
                            THEN ArmReturn("nil", "failed to read response body",
                                           StatusCode, "none", "unwritten")
                            ELSE ArmReturn("nil", "failed to get access",
                                           StatusCode, Body, "unwritten")
                       /\ UNCHANGED lro
    /\ UNCHANGED <<armReq, cancelFired>>
    /\ ArmFrame

\* one poll of the operation: a signal that has fired aborts; a terminal status
\* ends the machine; anything else, a transport error included, keeps it running
Poll ==
    /\ armPc = "polling"
    /\ IF lro.signal # "none" /\ cancelFired
         THEN /\ ArmReturn("handle", "cancelled", 0, "none", "unwritten")
              /\ UNCHANGED lro
         ELSE \E outcome \in IF lro.uri = "" THEN {"transport"} ELSE PollOutcomes :
                IF Terminal(outcome)
                  THEN /\ lro' = [lro EXCEPT !.state = outcome, !.last = outcome]
                       /\ IF outcome = "Succeeded"
                            THEN ArmReturn("handle", "nil", 0, "none", "result")
                            ELSE ArmReturn("handle", "operation ended", 0, outcome,
                                           "unwritten")
                  ELSE /\ lro' = [lro EXCEPT !.state = "Running", !.last = outcome]
                       /\ UNCHANGED <<armPc, armRet>>
    /\ UNCHANGED <<armReq, armResp, cancelFired>>
    /\ ArmFrame

\* the caller gives up on the call it is waiting for
CancelSignalFires ==
    /\ armPc \in {"sent", "polling"}
    /\ ~cancelFired
    /\ cancelFired' = TRUE
    /\ UNCHANGED <<armPc, armReq, armResp, lro, armRet>>
    /\ ArmFrame

ArmInit ==
    /\ TscInit
    /\ MgrIdle
    /\ FnIdle
    /\ ArmIdle

ArmNext ==
    \/ CallPerformRequest
    \/ ClientDo
    \/ Poll
    \/ CancelSignalFires

ArmSpec == ArmInit /\ [][ArmNext]_vars

\* the transport answers and the resolver keeps polling
ArmFairSpec == ArmSpec /\ WF_vars(ClientDo) /\ WF_vars(Poll)

\* ======================================================================
\* ARMUnimplementedStruct.Get
\* ======================================================================
KeyNames == {"a", "b"}
KeyPaths == UNION { [1..n -> KeyNames] : n \in 0..MaxKeyLen }
RawMessages ==
    { JNil, JScalar,
      JObject([a |-> JScalar, b |-> JScalar]),
      JObject([a |-> JObject([b |-> JScalar])]) }
OutKinds == {"ptr", "value"}

\* json.Unmarshal(object, &dict): the members of an object; on an error, which
\* the loop ignores, dict stays empty
UnmarshalDict(raw) == IF raw.kind = "object" THEN raw.members ELSE <<>>

\* dict[Key[0]]: the member, or the zero RawMessage when there is none
Member(dict, k) == IF k \in DOMAIN dict THEN dict[k] ELSE JNil

GetFrame ==
    UNCHANGED <<tscVars, mgrVars, fnVars, armPc, armReq, armResp, lro, cancelFired,
                armRet>>

\* s.Get(Key, out)
CallGet ==
    /\ getPc = "idle"
    /\ \E k \in KeyPaths, o \in OutKinds, s \in RawMessages :
          /\ Key' = k
          /\ out' = o
          /\ object' = s
    /\ getSteps' = 0
    /\ getRet' = "none"
    /\ getPc' = "kind"
    /\ GetFrame

\* if reflect.TypeOf(out).Kind() != reflect.Pointer { return errors.New("") }
KindCheck ==
    /\ getPc = "kind"
    /\ IF out # "ptr"
         THEN getPc' = "idle" /\ getRet' = "error"
         ELSE getPc' = "loop" /\ UNCHANGED getRet
    /\ UNCHANGED <<Key, out, object, getSteps>>
    /\ GetFrame

\* one iteration of for len(Key) > 0: object becomes the member named by Key[0];
\* nothing assigns Key
LoopBody ==
    /\ getPc = "loop"
    /\ Len(Key) > 0
    /\ getSteps < MaxGetSteps
    /\ object' = Member(UnmarshalDict(object), Key[1])
    /\ getSteps' = getSteps + 1
    /\ UNCHANGED <<getPc, Key, out, getRet>>
    /\ GetFrame

\* the loop is left: return json.Unmarshal(object, out)
GetReturn ==
    /\ getPc = "loop"
    /\ Len(Key) = 0
    /\ getRet' = IF object = JNil THEN "error" ELSE "nil"
    /\ getPc' = "idle"
    /\ UNCHANGED <<Key, out, object, getSteps>>
    /\ GetFrame

GetInit ==
    /\ TscInit
    /\ MgrIdle
    /\ FnIdle
    /\ ArmIdle

GetNext ==
    \/ CallGet
    \/ KindCheck
    \/ LoopBody
    \/ GetReturn

GetSpec == GetInit /\ [][GetNext]_vars

\* ======================================================================
\* Properties of TokenStoreCredential and GetTokenStoreCredential
\* ======================================================================
GetTokenReturned(t) == ret[t].op = "GetToken"
InGetToken(t) ==
    pc[t] \in {"rlock", "check", "runlock", "lock", "lockwait", "has", "load"}

\* the call of t that returned last found the cached expiry more than five
\* minutes (300 s) after the time at which it looked
FoundFresh(t) == ret[t].obs.seen.ExpiresOn - ret[t].obs.checkedAt > 300

\* C1: every return path of GetToken releases the lock it took: whenever no
\* GetToken call is in progress, no credential's lock is held, neither shared
\* (readers) nor exclusive (writer).
C1_LocksReleasedAfterCalls ==
    (\A t \in Threads : ~InGetToken(t)) =>
        \A h \in 1..Len(heap) :
            heap[h].readers = 0 /\ heap[h].writer = NoThread

\* C2: under fair scheduling every GetToken call that was started eventually
\* returns; no caller waits forever on the lock.
C2_EveryCallEventuallyReturns ==
    \A t \in Threads : InGetToken(t) ~> ~InGetToken(t)

\* C3: a GetToken call that finds the cached expiry more than five minutes
\* after the current time returns exactly the cached (token, expiry) pair,
\* makes no HasCachedToken and no LoadToken call, and leaves the cached token
\* as it was.
C3_FastPathReturnsCached ==
    \A t \in Threads :
        (GetTokenReturned(t) /\ FoundFresh(t)) =>
            /\ ~ret[t].err
            /\ ret[t].path = "fast"
            /\ ret[t].token = ret[t].obs.seen
            /\ ret[t].obs.has = 0
            /\ ret[t].obs.loads = 0
            /\ ret[t].after = ret[t].obs.seen

C3_Witness ==
    \E t \in Threads :
        /\ GetTokenReturned(t)
        /\ FoundFresh(t)
        /\ ret[t].token = AccessToken("s1", 900)

\* C4: GetToken never successfully returns a token whose expiry is strictly
\* before the time of the return.
C4_NeverReturnsExpired ==
    \A t \in Threads :
        (GetTokenReturned(t) /\ ~ret[t].err) => ret[t].token.ExpiresOn >= ret[t].at

C6_ErrorLeavesCachedToken ==
    \A t \in Threads :
        (/\ GetTokenReturned(t)
         /\ \/ ret[t].obs.hasOutcome \in {"error", "absent"}
            \/ ret[t].obs.loadOutcome = "error") =>
            /\ ret[t].err
            /\ ret[t].token = ZeroAccessToken
            /\ ret[t].after = ret[t].obs.locked
            /\ ret[t].obs.loaded = <<>>

C6_Witness ==
    \E t, u \in Threads :
        /\ GetTokenReturned(t)
        /\ ret[t].obs.hasOutcome = "absent"
        /\ ret[t].err
        /\ ret[t].after = AccessToken("seedA", 0)
        /\ GetTokenReturned(u)
        /\ ret[u].obs.loadOutcome = "error"

\* C7: the shared handle is created exactly once: at most one instance is ever
\* allocated, every GetTokenStoreCredential call returns that instance, the
\* global pointer never changes once set, and the instance's cached token
\* changes only by a GetToken call installing the token it loaded.
C7_SingletonCreatedOnce ==
    [][ /\ Len(heap') <= 1
        /\ issued' \subseteq {1}
        /\ \A t \in Threads :
              ret'[t].op = "GetTokenStoreCredential" =>
                  ret'[t].cred = globalTokenStoreCredential' /\ ret'[t].cred # NilTsc
        /\ globalTokenStoreCredential # NilTsc =>
              /\ globalTokenStoreCredential' = globalTokenStoreCredential
              /\ heap'[1].token # heap[1].token =>
                    \E t \in Threads : pc[t] = "load" /\ pc'[t] = "idle" /\ ~ret'[t].err
      ]_tscVars

C7_Witness ==
    \E t, u \in Threads :
        /\ ret[t].op = "GetTokenStoreCredential"
        /\ ret[u].op = "GetTokenStoreCredential"
        /\ ret[t].arg # ret[u].arg
        /\ ret[t].cred = ret[u].cred
        /\ heap[ret[u].cred].token = ret[t].arg

\* ======================================================================
\* Properties of UserOAuthTokenManager
\* ======================================================================
GetTokenInfoEnded(t) == mret[t].op = "GetTokenInfo"

\* the value is JSON whose refresh source is "tokenstore" / is something else
TokenStorePayload(raw) ==
    /\ raw # <<>>
    /\ raw[1].wellFormed
    /\ raw[1].object._token_refresh_source = "tokenstore"
OtherSourcePayload(raw) ==
    /\ raw # <<>>
    /\ raw[1].wellFormed
    /\ raw[1].object._token_refresh_source # "tokenstore"

\* C8: a login entry point that returns nil has made exactly one token request,
\* which succeeded, and has stashed its credential; one that returns an error
\* has left the stash as it was.
C8_StashOnlyAfterProbe ==
    lastLogin.op \in LoginOps =>
        IF lastLogin.outcome = "ok"
          THEN lastLogin.probes = 1 /\ lastLogin.probeOk /\ lastLogin.stashed
          ELSE ~lastLogin.stashChanged

\* C9: a GetTokenInfo call that found nothing stashed and read from the variable
\* a well-formed payload with refresh source "tokenstore" and a non-empty access
\* token returns that token info without error and leaves it stashed, and the
\* variable is empty from then on.
C9_EnvTokenReturnedAndVarCleared ==
    \A t \in Threads :
        (/\ GetTokenInfoEnded(t)
         /\ TokenStorePayload(mret[t].raw)
         /\ mret[t].raw[1].object.access_token # "") =>
            /\ mret[t].outcome = "ok"
            /\ mret[t].info # <<>>
            /\ mret[t].info[1].AccessToken = mret[t].raw[1].object.access_token
            /\ mret[t].info[1].ExpiresOn = mret[t].raw[1].object.expires_on
            /\ mret[t].info[1].TokenRefreshSource = "tokenstore"
            /\ mret[t].stashed
            /\ envVar = <<>>

C9_Witness ==
    \E t \in Threads :
        /\ GetTokenInfoEnded(t)
        /\ TokenStorePayload(mret[t].raw)
        /\ mret[t].outcome = "ok"
        /\ mret[t].info[1].AccessToken = "envToken"
        /\ stashedInfo = mret[t].info
        /\ envVar = <<>>

C11_LaterCallsReturnSameInfo ==
    \A t \in Threads :
        (GetTokenInfoEnded(t) /\ mret[t].afterResolved) =>
            /\ mret[t].outcome = "ok"
            /\ mret[t].info = resolved
            /\ ~mret[t].readEnv
            /\ ~mret[t].stashChanged

\* C11 amended: a GetTokenInfo call that begins after GetTokenInfo has returned
\* token info succeeds with the token info that is stashed, does not read or
\* clear the variable and leaves the stash as it is; it is the token info
\* returned before unless the stash has been replaced since, by a login or by a
\* GetTokenInfo call that was past its stash check already.
C11_LaterCallsReturnTheStash ==
    \A t \in Threads :
        (GetTokenInfoEnded(t) /\ mret[t].afterResolved) =>
            /\ mret[t].outcome = "ok"
            /\ ~mret[t].readEnv
            /\ mret[t].raw = <<>>
            /\ ~mret[t].stashChanged
            /\ mret[t].stashed
            /\ (~replaced => mret[t].info = resolved)

C11_Witness ==
    \E t \in Threads :
        /\ GetTokenInfoEnded(t)
        /\ mret[t].afterResolved
        /\ ~replaced
        /\ mret[t].info = resolved
        /\ resolved # <<>>
        /\ resolved[1].AccessToken = "envToken"
        /\ envVar = <<>>

C19_NothingCachedAfterRemove ==
    (removed /\ hct # "none") => hct = "false"

\* ======================================================================
\* Properties of the functions of an OAuthTokenInfo
\* ======================================================================
\* how many of client ID, object ID and resource ID are non-empty
FieldsSet(identityInfo) ==
    (IF identityInfo.ClientID # "" THEN 1 ELSE 0)
      + (IF identityInfo.ObjectID # "" THEN 1 ELSE 0)
      + (IF identityInfo.MSIResID # "" THEN 1 ELSE 0)

\* C13: Validate succeeds exactly when at most one of client ID, object ID and
\* resource ID is non-empty, whatever the strings are.
C13_ValidateAtMostOneField ==
    fnResult.op = "Validate" =>
        (fnResult.ok <=> FieldsSet(descriptor.IdentityInfo) <= 1)

\* the path the stated priority gives for a descriptor with nothing cached
PathByPriority(d) ==
    CASE d.TokenRefreshSource = "tokenstore" -> "tokenstore"
      [] d.TokenRefreshSource # "tokenstore" /\ d.Identity -> "managedidentity"
      [] d.TokenRefreshSource # "tokenstore" /\ ~d.Identity
           /\ d.ServicePrincipalName /\ d.SPNInfo.CertPath # "" -> "clientcertificate"
      [] d.TokenRefreshSource # "tokenstore" /\ ~d.Identity
           /\ d.ServicePrincipalName /\ d.SPNInfo.CertPath = "" -> "clientsecret"
      [] OTHER -> IF d.AzCLICred THEN "azcli"
                  ELSE IF d.PSCred THEN "pscontext" ELSE "devicecode"

\* C14: for a descriptor with no credential cached, GetTokenCredential takes the
\* one path the priority gives: token store, managed identity, service principal
\* (certificate when the path is non-empty, else secret), CLI, shell context,
\* else device code; a credential it builds is that path's and is cached.
C14_OnePathByPriority ==
    (fnResult.op = "GetTokenCredential" /\ ~fnResult.cached) =>
        /\ fnResult.path = PathByPriority(descriptor)
        /\ (~fnResult.err /\ fnResult.path # "devicecode") =>
              /\ fnResult.tc = fnResult.path
              /\ descriptor.TokenCredential = fnResult.path

C14_Witness ==
    /\ fnResult.op = "GetTokenCredential"
    /\ ~fnResult.cached
    /\ descriptor.TokenRefreshSource = ""
    /\ descriptor.Identity
    /\ descriptor.ServicePrincipalName
    /\ descriptor.AzCLICred
    /\ descriptor.PSCred
    /\ fnResult.path = "managedidentity"
    /\ ~fnResult.err

\* C20: toJSON followed by jsonToTokenInfo succeeds and gives back the access
\* token, expiry, tenant, endpoint, refresh source, application and client ID,
\* and the identity, service principal, CLI and shell flags and parameters.
C20_RoundTripKeepsFields ==
    fnResult.op = "RoundTrip" =>
        /\ ~fnResult.err
        /\ fnResult.info # <<>>
        /\ LET back == fnResult.info[1] IN
           /\ back.AccessToken = descriptor.AccessToken
           /\ back.ExpiresOn = descriptor.ExpiresOn
           /\ Expires(back) = Expires(descriptor)
           /\ back.Tenant = descriptor.Tenant
           /\ back.ActiveDirectoryEndpoint = descriptor.ActiveDirectoryEndpoint
           /\ back.TokenRefreshSource = descriptor.TokenRefreshSource
           /\ back.ApplicationID = descriptor.ApplicationID
           /\ back.ClientID = descriptor.ClientID
           /\ back.Identity = descriptor.Identity
           /\ back.IdentityInfo = descriptor.IdentityInfo
           /\ back.ServicePrincipalName = descriptor.ServicePrincipalName
           /\ back.SPNInfo = descriptor.SPNInfo
           /\ back.AzCLICred = descriptor.AzCLICred
           /\ back.PSCred = descriptor.PSCred

\* ======================================================================
\* Properties of ARMClient.PerformRequest
\* ======================================================================
\* PerformRequest has returned after a response with this status code
ReturnedOn(codes) ==
    /\ armRet.op = "PerformRequest"
    /\ armResp.StatusCode \in codes

C16_AcceptedOperationEndsByStatus ==
    /\ (ReturnedOn({202}) /\ armResp.AsyncOperation # "") =>
          /\ armRet.armResp = "handle"
          /\ lro.state \in {"Succeeded", "Failed", "Canceled"}
          /\ lro.last = lro.state
          /\ IF lro.state = "Succeeded"
               THEN armRet.err = "nil" /\ armRet.target = "result"
               ELSE /\ armRet.err # "nil"
                    /\ armRet.body = lro.state
                    /\ armRet.target = "unwritten"
    /\ lro.state \in {"Succeeded", "Failed", "Canceled"} => armPc # "polling"

C16_Witness ==
    /\ ReturnedOn({202})
    /\ armResp.AsyncOperation = "poll"
    /\ lro.state = "Failed"
    /\ armRet.armResp = "handle"
    /\ armRet.body = "Failed"

\* C17: a request answered with 202 delivers nothing before a terminal status:
\* while the last poll gave a non-terminal status or a transport error the
\* machine is Running, the call has not returned and the next poll is due.
C17_NothingFinalBeforeTerminal ==
    /\ ReturnedOn({202}) => lro.last \in {"Succeeded", "Failed", "Canceled"}
    /\ (armResp.StatusCode = 202 /\ armRet.target # "unwritten") =>
          lro.last = "Succeeded"
    /\ lro.last \in {"transport", "InProgress"} =>
          /\ lro.state = "Running"
          /\ armPc = "polling"
          /\ armRet.op = "none"

C17_Witness ==
    /\ armResp.StatusCode = 202
    /\ lro.last = "transport"
    /\ lro.state = "Running"
    /\ armPc = "polling"
    /\ cancelFired

\* C18: once the caller's signal has fired while the operation is polled, the
\* polling stops eventually (with a cancellation error, which is the only way
\* out while the operation stays in progress).
C18_CancelAbortsPolling ==
    (armPc = "polling" /\ cancelFired) ~> (armPc # "polling")

\* ======================================================================
\* Concurrent GetToken calls
\* ======================================================================
\* between tsc.lock.Lock() returning and the deferred tsc.lock.Unlock()
InSlowPath(t) == pc[t] \in {"has", "load"}
\* between tsc.lock.RLock() returning and tsc.lock.RUnlock()
HoldsShared(t) == pc[t] \in {"check", "runlock"}

\* C21: the slow path of GetToken is mutually exclusive: on every credential at
\* most one goroutine is between acquiring and releasing the exclusive lock,
\* and while one is there no goroutine holds the shared lock of that credential.
C21_SlowPathExclusive ==
    \A h \in 1..Len(heap) :
        LET inside == {t \in Threads : cred[t] = h /\ InSlowPath(t)} IN
        /\ Cardinality(inside) <= 1
        /\ inside # {} =>
              /\ heap[h].readers = 0
              /\ \A u \in Threads : cred[u] = h => ~HoldsShared(u)

\* one goroutine is loading while another, which found the token stale as
\* well, queues on the exclusive lock
C21_Witness ==
    \E t, u \in Threads :
        /\ pc[t] = "load"
        /\ pc[u] = "lock"
        /\ cred[u] = cred[t]
        /\ ~StillValid(obs[u].seen, obs[u].checkedAt)

\* C22: GetToken does not look at the expiry again once it holds the exclusive
\* lock: every call that found the cached token stale under the shared lock
\* goes to the store itself, with one existence check and, when the check finds
\* the token, one load of its own, whatever token an earlier call has installed
\* in the meantime; k such calls make k loads, one after another.
C22_EveryStaleObserverLoads ==
    \A t \in Threads :
        (GetTokenReturned(t) /\ ~FoundFresh(t)) =>
            /\ ret[t].path = "slow"
            /\ ret[t].obs.has = 1
            /\ ret[t].obs.hasOutcome = "found" => ret[t].obs.loads = 1
            /\ (~ret[t].err) => ret[t].obs.loads = 1

\* two calls found the seed token stale before either refreshed; the second got
\* the exclusive lock when the first had installed a token that was good for
\* more than five minutes, and loaded all the same
C22_Witness ==
    \E t, u \in Threads :
        /\ t # u
        /\ GetTokenReturned(t) /\ GetTokenReturned(u)
        /\ ret[t].obs.seen = ret[u].obs.seen
        /\ ret[t].obs.seen \in SeedTokens
        /\ ~FoundFresh(t) /\ ~FoundFresh(u)
        /\ ret[t].obs.loads = 1 /\ ~ret[t].err
        /\ ret[u].obs.locked = ret[t].token
        /\ ret[u].obs.locked.ExpiresOn - ret[u].at > 300
        /\ ret[u].obs.loads = 1 /\ ~ret[u].err

\* the pair is the one the credential was created with, or the access token and
\* the expiry of one token info that a refresh loaded into the credential
WholePair(token, h) ==
    \/ token = heap[h].seed
    \/ \E info \in heap[h].installed :
          /\ token.Token = info.AccessToken
          /\ token.ExpiresOn = (IF info.ExpiresOn.valid THEN info.ExpiresOn.val
                                ELSE ExpiresDefault)

\* C23: under any interleaving of GetToken calls, every token returned, and
\* every cached token, is a whole (token, expiry) pair: the seed pair of the
\* credential or the pair installed by one single refresh, never the token
\* string of one with the expiry of another.
C23_NoTornToken ==
    /\ \A h \in 1..Len(heap) : WholePair(heap[h].token, h)
    /\ \A t \in Threads :
          (GetTokenReturned(t) /\ ~ret[t].err) => WholePair(ret[t].token, ret[t].cred)

\* one call refreshed a stale seed and another, running beside it, returned the
\* refreshed pair on the fast path
C23_Witness ==
    \E t, u \in Threads :
        /\ t # u
        /\ GetTokenReturned(t) /\ GetTokenReturned(u)
        /\ ret[u].path = "slow" /\ ~ret[u].err
        /\ ret[t].path = "fast"
        /\ ret[t].token = ret[u].token
        /\ ret[t].token # heap[ret[t].cred].seed
        /\ ret[t].token.Token = "s1" /\ ret[t].token.ExpiresOn = 900

\* ======================================================================
\* Managed identity by object ID
\* ======================================================================
\* C24 as stated: MSILogin with an identity whose object ID is set returns an
\* error from Validate, before it resolves a credential or requests a token.
C24_ObjectIdRejectedByValidate ==
    (lastLogin.op = "MSILogin" /\ lastLogin.identityInfo.ObjectID # "") =>
        /\ lastLogin.outcome = "error"
        /\ lastLogin.resolutions = 0
        /\ lastLogin.probes = 0

\* C24 amended: MSILogin with an identity whose object ID is the only selector
\* set passes Validate and is rejected when the credential is resolved: it
\* returns an error after one GetTokenCredential call, requests no token and
\* leaves the stash as it was.
C24_ObjectIdRejectedByResolution ==
    (/\ lastLogin.op = "MSILogin"
     /\ lastLogin.identityInfo.ObjectID # ""
     /\ lastLogin.identityInfo.ClientID = ""
     /\ lastLogin.identityInfo.MSIResID = "") =>
        /\ lastLogin.outcome = "error"
        /\ lastLogin.resolutions = 1
        /\ lastLogin.probes = 0
        /\ ~lastLogin.stashChanged

C24_Witness ==
    /\ lastLogin.op = "MSILogin"
    /\ lastLogin.identityInfo = IdentityInfo("", "object", "")
    /\ lastLogin.outcome = "error"
    /\ lastLogin.resolutions = 1
    /\ lastLogin.probes = 0

\* ======================================================================
\* The request ARMClient.PerformRequest sends
\* ======================================================================
\* C25: every request PerformRequest sends carries the bearer token that
\* FreshToken returned without error in that call; when FreshToken fails, no
\* request is sent and the call returns an error.
C25_RequestCarriesFreshToken ==
    /\ armReq.sent => (~armReq.freshErr /\ armReq.Authorization # "")
    /\ (armReq.freshErr /\ armPc = "idle") => (~armReq.sent /\ armRet.err # "nil")

\* C27: for every ARMRequestSettings, one without per-request headers included,
\* PerformRequest attaches the Authorization, Content-Type and Accept headers
\* and reaches the send step; it never panics while attaching them.
C27_HeadersAttachedWithoutPanic ==
    /\ armPc # "panicked"
    /\ armReq.sent => armReq.Headers = "map"

\* ======================================================================
\* Concurrent GetTokenInfo calls
\* ======================================================================
\* C26: every GetTokenInfo call that begins while nothing is stashed and the
\* variable holds a token-store payload with an access token returns the token
\* info of that payload, whatever other GetTokenInfo calls run beside it (no
\* login entry point is called); none fails because another call cleared the
\* variable first.
C26_ConcurrentCallersAllResolve ==
    \A t \in Threads :
        (/\ GetTokenInfoEnded(t)
         /\ logins = 0
         /\ ~mret[t].stashSetAtCall
         /\ TokenStorePayload(mret[t].envAtCall)
         /\ mret[t].envAtCall[1].object.access_token # "") =>
            /\ mret[t].outcome = "ok"
            /\ mret[t].info # <<>>
            /\ mret[t].info[1].AccessToken = mret[t].envAtCall[1].object.access_token

\* ======================================================================
\* ARMUnimplementedStruct.Get
\* ======================================================================
\* C28: Get with a pointer target walks one key of the path per step and
\* returns after as many steps as the path has keys: it never makes more
\* iterations than the path is long.
C28_GetWalksOneKeyPerStep ==
    getSteps <= Len(Key)

====
